---- MODULE Spec2Model ----
(***************************************************************************)
(* SSEClientTransport (src/src/client/sse.ts): a client transport that     *)
(* receives messages over a Server-Sent-Events stream and sends messages   *)
(* with separate POST requests.  The model follows the JavaScript          *)
(* run-to-completion semantics: every action is one synchronous run of a   *)
(* public method or of a callback, up to its next await.                   *)
(***************************************************************************)
EXTENDS Integers, Sequences, FiniteSets, TLC

\* ------------------------------------------------------------------ bounds
\* One run explores one workload: what the caller and the server do in it.
MaxChannels == 2   \* EventSource objects ever constructed
MaxStarts   == 2   \* start() calls
MaxCloses   == 2   \* invocations of the close callback
MaxErrors   == 2   \* error-callback invocations before channel events stop failing
MaxInbound  == 3   \* "message" events dispatched by the streaming channel
MaxSends    == 2   \* concurrent send() calls
MaxPosts    == 3   \* POSTs one send() call may issue (cap on the resend recursion)

\* connecting and reconnecting; inbound messages on one channel; one send()
\* with its resends; one send() across a reconnect; concurrent send() calls;
\* a start() and a send() whose authorization is denied
Workloads ==
  { [name |-> "connect", channels |-> MaxChannels, starts |-> MaxStarts,
     closes |-> MaxCloses, errors |-> MaxErrors, inbound |-> 0, sends |-> 0,
     posts |-> 0],
    [name |-> "inbound", channels |-> 1, starts |-> 1, closes |-> 1,
     errors |-> 1, inbound |-> MaxInbound, sends |-> 0, posts |-> 0],
    [name |-> "resend", channels |-> 1, starts |-> 1, closes |-> 1,
     errors |-> 1, inbound |-> 0, sends |-> 1, posts |-> MaxPosts],
    [name |-> "handover", channels |-> MaxChannels, starts |-> 1,
     closes |-> 1, errors |-> 1, inbound |-> 0, sends |-> 1, posts |-> 1],
    [name |-> "concurrent", channels |-> 1, starts |-> 1, closes |-> 1,
     errors |-> 0, inbound |-> 0, sends |-> MaxSends, posts |-> 1],
    [name |-> "denied", channels |-> 2, starts |-> 1, closes |-> 0,
     errors |-> 1, inbound |-> 0, sends |-> 1, posts |-> 2] }

\* ------------------------------------------------------------- addresses
\* an unset field, and the exception new URL() throws, as values of the
\* same shape as an address
Undefined == [origin |-> "undefined", path |-> <<>>]
TypeError == [origin |-> "TypeError", path |-> <<>>]

OriginA == "https://a.example"
OriginB == "https://b.example"

\* this._url, the address given to the constructor
url == [origin |-> OriginA, path |-> <<"mcp", "sse">>]

\* payloads of "endpoint" events: "/messages", "messages",
\* "https://a.example/rpc", "https://b.example/rpc" and an unparsable one
EndpointData ==
  { [form |-> "abspath",  origin |-> "",      path |-> <<"messages">>],
    [form |-> "relpath",  origin |-> "",      path |-> <<"messages">>],
    [form |-> "absolute", origin |-> OriginA, path |-> <<"rpc">>],
    [form |-> "absolute", origin |-> OriginB, path |-> <<"rpc">>],
    [form |-> "invalid",  origin |-> "",      path |-> <<>>] }

\* new URL(data, base): an absolute reference stands alone, an absolute path
\* keeps the base's origin, a relative path replaces the base's last segment
NewURL(data, base) ==
  CASE data.form = "absolute" -> [origin |-> data.origin, path |-> data.path]
    [] data.form = "abspath"  -> [origin |-> base.origin, path |-> data.path]
    [] data.form = "relpath"  ->
         [origin |-> base.origin,
          path   |-> SubSeq(base.path, 1, Len(base.path) - 1) \o data.path]
    [] OTHER -> TypeError

\* --------------------------------------------------------------- messages
\* a JavaScript object is a sequence of <<key, value>> pairs
MsgPing == << <<"jsonrpc", "2.0">>, <<"id", "1">>, <<"method", "ping">> >>
MsgNote == << <<"jsonrpc", "2.0">>, <<"method", "notify">> >>
MsgOld  == << <<"jsonrpc", "1.0">>, <<"method", "ping">> >>
Messages == {MsgPing}

RECURSIVE Flatten(_)
Flatten(pairs) ==
  IF pairs = <<>> THEN <<>>
  ELSE <<pairs[1][1], pairs[1][2]>> \o Flatten(Tail(pairs))

\* JSON.stringify(message): the text as a sequence of tokens
Stringify(obj) == <<"{">> \o Flatten(obj) \o <<"}">>

\* the exceptions of JSON.parse and of the schema, shaped like an object
SyntaxError == << <<"SyntaxError", "">> >>
ZodError    == << <<"ZodError", "">> >>

RECURSIVE Pairs(_)
Pairs(toks) ==
  IF toks = <<>> THEN <<>>
  ELSE << <<toks[1], toks[2]>> >> \o Pairs(Tail(Tail(toks)))

\* JSON.parse(text)
JSONParse(text) ==
  IF /\ Len(text) >= 2
     /\ text[1] = "{"
     /\ text[Len(text)] = "}"
     /\ (Len(text) - 2) % 2 = 0
  THEN Pairs(SubSeq(text, 2, Len(text) - 1))
  ELSE SyntaxError

HasKey(obj, k) == \E i \in 1..Len(obj) : obj[i][1] = k
Get(obj, k) == obj[CHOOSE i \in 1..Len(obj) : obj[i][1] = k][2]

\* JSONRPCMessageSchema.parse(value)
SchemaParse(obj) ==
  IF /\ HasKey(obj, "jsonrpc")
     /\ Get(obj, "jsonrpc") = "2.0"
     /\ \/ HasKey(obj, "method")
        \/ HasKey(obj, "id") /\ (HasKey(obj, "result") \/ HasKey(obj, "error"))
  THEN obj
  ELSE ZodError

\* a handler that skips the schema
DecodeUnvalidated(text) == JSONParse(text)

\* JSONRPCMessageSchema.parse(JSON.parse(messageEvent.data))
Decode(text) ==
  IF JSONParse(text) = SyntaxError THEN SyntaxError
  ELSE SchemaParse(JSONParse(text))

IsDecodeError(r) == r \in {SyntaxError, ZodError}

\* payloads of "message" events: two valid envelopes, a truncated text and a
\* well-formed text that fails the schema
InboundData ==
  { Stringify(MsgPing), Stringify(MsgNote), <<"{", "jsonrpc">>, Stringify(MsgOld) }

\* ------------------------------------------------------------------ state
VARIABLES
  load,             \* the workload of this run (never changes)
  authProvider,     \* this._authProvider is set (fixed at construction)
  eventSource,      \* this._eventSource: index into channels, 0 when undefined
  endpoint,         \* this._endpoint: an address, or Undefined
  abortController,  \* this._abortController: index into controllers, 0 when undefined
  channels,         \* every EventSource constructed, with the promise of its _startOrAuth
  controllers,      \* every AbortController constructed: TRUE once aborted
  streamAuths,      \* auth() exchanges pending in _authThenStart: the channel that got the 401
  starts,           \* start() calls made, in order
  sends,            \* send() calls made, in order
  onerrorCalls,     \* invocations of this.onerror
  oncloseCalls,     \* invocations of this.onclose
  onmessageLog,     \* arguments of the invocations of this.onmessage, in order
  inbound           \* payloads of the "message" events dispatched, in order

vars == <<load, authProvider, eventSource, endpoint, abortController, channels,
          controllers, streamAuths, starts, sends, onerrorCalls, oncloseCalls, onmessageLog, inbound>>

Init ==
  /\ load \in Workloads
  /\ authProvider \in BOOLEAN
  /\ eventSource = 0
  /\ endpoint = Undefined
  /\ abortController = 0
  /\ channels = <<>>
  /\ controllers = <<>>
  /\ streamAuths = <<>>
  /\ starts = <<>>
  /\ sends = <<>>
  /\ onerrorCalls = 0
  /\ oncloseCalls = 0
  /\ onmessageLog = <<>>
  /\ inbound = <<>>

\* ---------------------------------------------------------------- helpers
Last(s) == s[Len(s)]
Remove(s, i) == SubSeq(s, 1, i - 1) \o SubSeq(s, i + 1, Len(s))

AuthOutcomes == {"AUTHORIZED", "REDIRECT", "throw"}

\* a 401 handler that drops the promise of _authThenStart()
RECURSIVE SettleUnchained(_, _, _, _)
SettleUnchained(chs, c, outcome, err) ==
  IF c = 0 THEN chs
  ELSE IF chs[c].promise # "pending" THEN chs
  ELSE [chs EXCEPT ![c].promise = outcome, ![c].error = err]

\* resolve()/reject() of the promise created by the _startOrAuth call that
\* constructed channel c.  A promise settles once; when it settles, the
\* _authThenStart() that awaited it settles the same way and calls the
\* resolve/reject of the channel whose 401 started it (line 115).
RECURSIVE Settle(_, _, _, _)
Settle(chs, c, outcome, err) ==
  IF c = 0 THEN chs
  ELSE IF chs[c].promise # "pending" THEN chs
  ELSE Settle([chs EXCEPT ![c].promise = outcome, ![c].error = err],
              chs[c].parent, outcome, err)

\* the start() call that reached _startOrAuth awaits channel 1's promise; an
\* error callback made together with the reject that settles it is its report
Reported(sts, chs, chsAfter) ==
  IF /\ Len(chs) >= 1
     /\ chs[1].promise = "pending"
     /\ chsAfter[1].promise = "rejected"
     /\ Len(sts) >= 1
  THEN [sts EXCEPT ![1].reports = @ + 1]
  ELSE sts

\* a guard that lets a closed transport start again
AlreadyStartedWhileOpen ==
  eventSource # 0 /\ channels[eventSource].readyState = "open"

\* line 165: if (this._eventSource)
AlreadyStarted == eventSource # 0

\* a guard on the streaming channel instead of the endpoint
NotConnectedNoChannel == eventSource = 0

\* line 181: if (!this._endpoint)
NotConnected == endpoint = Undefined

\* line 114: event.code === 401 && this._authProvider
IsAuthChallenge(code) == code = 401 /\ authProvider

\* a listener that never compares origins
SameOriginAlways(u) == TRUE

\* line 133: this._endpoint.origin !== this._url.origin
SameOrigin(u) == u.origin = url.origin

\* a POST to the address of the stream
PostTargetBase == url

\* line 197: fetch(this._endpoint, init)
PostTarget == endpoint

\* line 193: body: JSON.stringify(message)
PostBody(m) == Stringify(m)

\* line 194: signal: this._abortController?.signal
PostSignal == abortController

\* line 175: this._abortController?.abort()
AbortCurrent(ctl) ==
  IF abortController = 0 THEN ctl ELSE [ctl EXCEPT ![abortController] = TRUE]

\* line 176: this._eventSource?.close()
CloseCurrent(chs) ==
  IF eventSource = 0 THEN chs
  ELSE [chs EXCEPT ![eventSource].readyState = "closed"]

\* line 177: this.onclose?.()
OncloseAfterClose == oncloseCalls + 1

\* lines 205-206: the resend is returned, not awaited, so only the catch block
\* of the innermost send() frame runs when a POST fails
CatchReports(snd) == 1

\* a transport that a failed send() leaves unusable
EnterSendUnlessFailed(snd) ==
  IF NotConnected \/ \E s \in 1..Len(sends) : sends[s].phase = "rejected"
  THEN [snd EXCEPT !.phase = "rejected", !.error = "NotConnected"]
  ELSE [snd EXCEPT !.phase = "headers"]

\* a send() frame is entered, lines 180-186: the guard, then the await of
\* _commonHeaders()
EnterSend(snd) ==
  IF NotConnected
  THEN [snd EXCEPT !.phase = "rejected", !.error = "NotConnected"]
  ELSE [snd EXCEPT !.phase = "headers"]

\* a send() that takes the authorization for the delivery
AfterAuthorizedNoResend(snd) == [snd EXCEPT !.phase = "resolved"]

\* line 206: return this.send(message)
AfterAuthorized(snd) == EnterSend(snd)

IsOpen(c) == c \in 1..Len(channels) /\ channels[c].readyState = "open"

Aborted(sig) == sig # 0 /\ controllers[sig]

\* ---------------------------------------------------------------- actions
\* _startOrAuth(), lines 103-162: a new EventSource with its handlers bound
\* to a new promise, and a new AbortController
StartOrAuth(chs, parent) ==
  /\ Len(chs) < load.channels
  /\ channels' = Append(chs, [readyState |-> "open", promise |-> "pending",
                              error |-> "", parent |-> parent])
  /\ controllers' = Append(controllers, FALSE)
  /\ eventSource' = Len(chs) + 1
  /\ abortController' = Len(controllers) + 1

\* start(), lines 164-172
Start ==
  /\ Len(starts) < load.starts
  /\ IF AlreadyStarted
     THEN /\ starts' = Append(starts, [result |-> "AlreadyStarted", reports |-> 0])
          /\ UNCHANGED <<channels, controllers, eventSource, abortController>>
     ELSE /\ starts' = Append(starts, [result |-> "chained", reports |-> 0])
          /\ StartOrAuth(channels, 0)
  /\ UNCHANGED <<load, authProvider, endpoint, streamAuths, sends, onerrorCalls, oncloseCalls, onmessageLog, inbound>>

\* close(), lines 174-178
Close ==
  /\ oncloseCalls < load.closes
  /\ controllers' = AbortCurrent(controllers)
  /\ channels' = CloseCurrent(channels)
  /\ oncloseCalls' = OncloseAfterClose
  /\ UNCHANGED <<load, authProvider, eventSource, endpoint, abortController,
                 streamAuths, starts, sends, onerrorCalls,
                 onmessageLog, inbound>>

\* _eventSource.onerror, lines 113-122, with _authThenStart up to its await
\* of auth(), lines 71-78
ErrorEvent(c, code) ==
  /\ IsOpen(c)
  /\ IF IsAuthChallenge(code)
     THEN /\ Len(channels) + Len(streamAuths) < load.channels
          /\ streamAuths' = Append(streamAuths, c)
          /\ UNCHANGED <<channels, starts, onerrorCalls>>
     ELSE /\ onerrorCalls < load.errors
          /\ channels' = Settle(channels, c, "rejected", "SseError")
          /\ starts' = Reported(starts, channels, channels')
          /\ onerrorCalls' = onerrorCalls + 1
          /\ UNCHANGED streamAuths
  /\ UNCHANGED <<load, authProvider, eventSource, endpoint, abortController,
                 controllers, sends, oncloseCalls, onmessageLog,
                 inbound>>

\* an _authThenStart that reconnects whatever auth() returned
StreamAuthResultIgnored(i, r) ==
  /\ i \in 1..Len(streamAuths)
  /\ streamAuths' = Remove(streamAuths, i)
  /\ StartOrAuth(channels, streamAuths[i])
  /\ UNCHANGED <<load, authProvider, endpoint, sends, oncloseCalls,
                 onmessageLog, inbound, starts, onerrorCalls>>

\* _authThenStart after its await of auth(), lines 79-88
StreamAuthResult(i, r) ==
  /\ i \in 1..Len(streamAuths)
  /\ streamAuths' = Remove(streamAuths, i)
  /\ CASE r = "throw" ->
            /\ onerrorCalls < load.errors
            /\ channels' = Settle(channels, streamAuths[i], "rejected", "AuthError")
            /\ starts' = Reported(starts, channels, channels')
            /\ onerrorCalls' = onerrorCalls + 1
            /\ UNCHANGED <<eventSource, abortController, controllers>>
       [] r = "REDIRECT" ->
            /\ channels' = Settle(channels, streamAuths[i], "rejected", "Unauthorized")
            /\ UNCHANGED <<starts, onerrorCalls, eventSource, abortController,
                           controllers>>
       [] OTHER ->
            /\ StartOrAuth(channels, streamAuths[i])
            /\ UNCHANGED <<starts, onerrorCalls>>
  /\ UNCHANGED <<load, authProvider, endpoint, sends, oncloseCalls, onmessageLog, inbound>>

\* the "endpoint" listener, lines 128-147, with the close() it calls
EndpointEvent(c, data) ==
  /\ IsOpen(c)
  /\ LET u == NewURL(data, url) IN
     IF u # TypeError /\ SameOrigin(u)
     THEN /\ endpoint' = u
          /\ channels' = Settle(channels, c, "resolved", "")
          /\ UNCHANGED <<controllers, starts, onerrorCalls, oncloseCalls>>
     ELSE /\ onerrorCalls < load.errors
          /\ endpoint' = IF u = TypeError THEN endpoint ELSE u
          /\ channels' = CloseCurrent(Settle(channels, c, "rejected",
                            IF u = TypeError THEN "TypeError"
                            ELSE "EndpointOriginMismatch"))
          /\ starts' = Reported(starts, channels, channels')
          /\ onerrorCalls' = onerrorCalls + 1
          /\ controllers' = AbortCurrent(controllers)
          /\ oncloseCalls' = OncloseAfterClose
  /\ UNCHANGED <<load, authProvider, eventSource, abortController, streamAuths,
                 sends, onmessageLog, inbound>>

\* _eventSource.onmessage, lines 149-160
MessageEvent(c, data) ==
  /\ IsOpen(c)
  /\ Len(inbound) < load.inbound
  /\ inbound' = Append(inbound, data)
  /\ IF IsDecodeError(Decode(data))
     THEN /\ onerrorCalls' = onerrorCalls + 1
          /\ UNCHANGED onmessageLog
     ELSE /\ onmessageLog' = Append(onmessageLog, Decode(data))
          /\ UNCHANGED onerrorCalls
  /\ UNCHANGED <<load, authProvider, eventSource, endpoint, abortController,
                 channels, controllers, streamAuths, starts, sends,
                 oncloseCalls>>

\* send(message) called by the caller
Send(m) ==
  /\ Len(sends) < load.sends
  /\ sends' = Append(sends, EnterSend([msg |-> m, phase |-> "new", error |-> "",
                                       posts |-> <<>>, auths |-> 0,
                                       reports |-> 0]))
  /\ UNCHANGED <<load, authProvider, eventSource, endpoint, abortController,
                 channels, controllers, streamAuths, starts, onerrorCalls, oncloseCalls, onmessageLog, inbound>>

\* the catch block of send(), lines 214-217
SendCatch(s, err) ==
  /\ sends' = [sends EXCEPT ![s].phase = "rejected", ![s].error = err,
                            ![s].reports = @ + CatchReports(sends[s])]
  /\ onerrorCalls' = onerrorCalls + CatchReports(sends[s])

\* _commonHeaders() fails: this._authProvider.tokens() rejects, lines 93-94
SendTokensFail(s) ==
  /\ s \in 1..Len(sends)
  /\ sends[s].phase = "headers"
  /\ authProvider
  /\ SendCatch(s, "TokensError")
  /\ UNCHANGED <<load, authProvider, eventSource, endpoint, abortController,
                 channels, controllers, streamAuths, starts, oncloseCalls, onmessageLog, inbound>>

\* send() after _commonHeaders() returned, lines 187-197: the request is
\* built and fetch() is called; a signal already aborted makes fetch() reject
\* without a request
SendFetch(s) ==
  /\ s \in 1..Len(sends)
  /\ sends[s].phase = "headers"
  /\ IF Aborted(PostSignal)
     THEN SendCatch(s, "AbortError")
     ELSE /\ sends' = [sends EXCEPT ![s].phase = "fetch",
                         ![s].posts = Append(@, [url |-> PostTarget,
                                                 body |-> PostBody(sends[s].msg),
                                                 signal |-> PostSignal])]
          /\ UNCHANGED onerrorCalls
  /\ UNCHANGED <<load, authProvider, eventSource, endpoint, abortController,
                 channels, controllers, streamAuths, starts, oncloseCalls, onmessageLog, inbound>>

\* the response of the POST arrives, lines 197-213; a POST whose signal has
\* been aborted ends with an AbortError instead
FetchResponse(s, status) ==
  /\ s \in 1..Len(sends)
  /\ sends[s].phase = "fetch"
  /\ IF Aborted(Last(sends[s].posts).signal)
     THEN SendCatch(s, "AbortError")
     ELSE CASE status = 200 ->
                 /\ sends' = [sends EXCEPT ![s].phase = "resolved"]
                 /\ UNCHANGED onerrorCalls
            [] status = 401 /\ authProvider ->
                 /\ Len(sends[s].posts) < load.posts
                 /\ sends' = [sends EXCEPT ![s].phase = "auth", ![s].auths = @ + 1]
                        /\ UNCHANGED onerrorCalls
            [] OTHER ->
                 SendCatch(s, "HttpDeliveryError")
  /\ UNCHANGED <<load, authProvider, eventSource, endpoint, abortController,
                 channels, controllers, streamAuths, starts, oncloseCalls, onmessageLog, inbound>>

\* fetch() rejects with a network failure, lines 197 and 214-217
FetchFails(s) ==
  /\ s \in 1..Len(sends)
  /\ sends[s].phase = "fetch"
  /\ ~Aborted(Last(sends[s].posts).signal)
  /\ SendCatch(s, "NetworkError")
  /\ UNCHANGED <<load, authProvider, eventSource, endpoint, abortController,
                 channels, controllers, streamAuths, starts, oncloseCalls, onmessageLog, inbound>>

\* send() after its await of auth(), lines 200-207
SendAuthResult(s, r) ==
  /\ s \in 1..Len(sends)
  /\ sends[s].phase = "auth"
  /\ CASE r = "throw" -> SendCatch(s, "AuthError")
       [] r = "REDIRECT" -> SendCatch(s, "Unauthorized")
       [] OTHER -> /\ sends' = [sends EXCEPT ![s] = AfterAuthorized(@)]
                   /\ UNCHANGED onerrorCalls
  /\ UNCHANGED <<load, authProvider, eventSource, endpoint, abortController,
                 channels, controllers, streamAuths, starts, oncloseCalls, onmessageLog, inbound>>

Next ==
  \/ Start
  \/ Close
  \/ \E c \in 1..MaxChannels, code \in {401, 500} : ErrorEvent(c, code)
  \/ \E i \in 1..MaxChannels, r \in AuthOutcomes : StreamAuthResult(i, r)
  \/ \E c \in 1..MaxChannels, data \in EndpointData : EndpointEvent(c, data)
  \/ \E c \in 1..MaxChannels, data \in InboundData : MessageEvent(c, data)
  \/ \E m \in Messages : Send(m)
  \/ \E s \in 1..MaxSends : SendTokensFail(s)
  \/ \E s \in 1..MaxSends : SendFetch(s)
  \/ \E s \in 1..MaxSends, status \in {200, 401, 500} : FetchResponse(s, status)
  \/ \E s \in 1..MaxSends : FetchFails(s)
  \/ \E s \in 1..MaxSends, r \in AuthOutcomes : SendAuthResult(s, r)

Spec == Init /\ [][Next]_vars

\* the executions in which the awaited auth() settles (line 78) and a
\* streaming channel that stays open delivers an endpoint event (line 128)
SpecFair ==
  /\ Init
  /\ [][Next]_vars
  /\ WF_vars(\E i \in 1..MaxChannels, r \in AuthOutcomes : StreamAuthResult(i, r))
  /\ WF_vars(\E c \in 1..MaxChannels, data \in EndpointData : EndpointEvent(c, data))

\* ----------------------------------------------------------------- claims
\* the start() call that opened the first channel has not settled
StartPending ==
  /\ Len(starts) >= 1
  /\ starts[1].result = "chained"
  /\ channels[1].promise = "pending"

Channels == 1..MaxChannels

\* the address an endpoint payload stands for, and whether it has one
Parses(d) == d.form # "invalid"
Resolved(d) == NewURL(d, url)

\* C1: a start() call made after a first start() call fails with
\* AlreadyStarted and constructs no second streaming channel, whatever has
\* happened to the first call and to the transport in between.
C1_SecondStartFails ==
  [][ (Len(starts) >= 1 /\ Len(starts') = Len(starts) + 1)
        => /\ Last(starts').result = "AlreadyStarted"
           /\ channels' = channels
           /\ eventSource' = eventSource ]_vars

\* a second start() was refused after the transport had been closed
C1_Witness ==
  /\ Len(starts) = 2
  /\ starts[2].result = "AlreadyStarted"
  /\ Len(channels) = 1
  /\ channels[1].readyState = "closed"

\* C2: a send() call made while no endpoint address is recorded is rejected
\* with NotConnected, issues no POST and invokes neither the auth provider
\* nor the auth collaborator, in that step or later.
C2_SendBeforeEndpoint ==
  /\ [][ (Len(sends') = Len(sends) + 1 /\ endpoint = Undefined)
           => /\ Last(sends').phase = "rejected"
              /\ Last(sends').error = "NotConnected"
              /\ onerrorCalls' = onerrorCalls ]_vars
  /\ [](\A s \in 1..Len(sends) :
          sends[s].error = "NotConnected"
            => /\ sends[s].phase = "rejected"
               /\ sends[s].posts = <<>>
               /\ sends[s].auths = 0)

\* send() was called on a started transport that had no endpoint yet
C2_Witness ==
  /\ eventSource # 0
  /\ endpoint = Undefined
  /\ \E s \in 1..Len(sends) : sends[s].error = "NotConnected"

C4_OriginMismatch ==
  [][ \A c \in Channels, d \in EndpointData :
        (/\ EndpointEvent(c, d)
         /\ Parses(d)
         /\ Resolved(d).origin # url.origin
         /\ StartPending)
          => /\ channels'[1].promise = "rejected"
             /\ channels'[1].error = "EndpointOriginMismatch"
             /\ starts'[1].reports = 1
             /\ onerrorCalls' = onerrorCalls + 1
             /\ oncloseCalls' = oncloseCalls + 1
             /\ channels'[eventSource].readyState = "closed" ]_vars

\* the mismatch arrived on the channel of a reconnect and failed start()
C4_Witness ==
  /\ Len(channels) = 2
  /\ channels[1].error = "EndpointOriginMismatch"
  /\ channels[2].error = "EndpointOriginMismatch"
  /\ onerrorCalls = 1
  /\ oncloseCalls = 1

\* what C5 expects of a payload: the texts of the two valid envelopes
ValidTexts == {Stringify(m) : m \in {MsgPing, MsgNote}}
Envelope(text) == CHOOSE m \in {MsgPing, MsgNote} : Stringify(m) = text

RECURSIVE ValidOf(_)
ValidOf(texts) ==
  IF texts = <<>> THEN <<>>
  ELSE (IF Head(texts) \in ValidTexts THEN <<Envelope(Head(texts))>> ELSE <<>>)
         \o ValidOf(Tail(texts))

\* C5: a malformed message event invokes the error callback once, delivers
\* nothing and changes no transport state; a valid one is delivered through
\* the message callback; the messages delivered are the valid ones, in the
\* order of their events.
C5_InboundMessages ==
  /\ [](onmessageLog = ValidOf(inbound))
  /\ [][ \A c \in Channels, d \in InboundData :
           MessageEvent(c, d)
             => IF d \in ValidTexts
                THEN /\ onmessageLog' = Append(onmessageLog, Envelope(d))
                     /\ onerrorCalls' = onerrorCalls
                ELSE /\ onmessageLog' = onmessageLog
                     /\ onerrorCalls' = onerrorCalls + 1
                     /\ UNCHANGED <<eventSource, endpoint, abortController,
                                    channels, controllers, streamAuths,
                                    starts, sends, oncloseCalls>> ]_vars

\* a malformed payload arrived between two valid ones
C5_Witness ==
  /\ Len(inbound) = 3
  /\ inbound[1] = Stringify(MsgNote)
  /\ inbound[2] \notin ValidTexts
  /\ inbound[3] = Stringify(MsgPing)
  /\ onmessageLog = <<MsgNote, MsgPing>>
  /\ onerrorCalls = 1
  /\ oncloseCalls = 0
  /\ IsOpen(1)

\* C6: with an auth provider, when the auth exchange started by a channel's
\* 401 returns AUTHORIZED the transport constructs a new streaming channel;
\* when a channel opened that way delivers a same-origin endpoint event while
\* start() is still pending, start() resolves and no error callback is made.
C6_ReconnectAfterAuth ==
  [][ /\ \A i \in Channels :
           StreamAuthResult(i, "AUTHORIZED")
             => /\ Len(channels') = Len(channels) + 1
                /\ Last(channels').readyState = "open"
                /\ eventSource' = Len(channels')
      /\ \A c \in Channels, d \in EndpointData :
           (/\ EndpointEvent(c, d)
            /\ channels[c].parent # 0
            /\ Parses(d)
            /\ Resolved(d).origin = url.origin
            /\ StartPending)
             => /\ channels'[1].promise = "resolved"
                /\ onerrorCalls' = onerrorCalls ]_vars

\* start() resolved through the channel of the reconnect, with no report
C6_Witness ==
  /\ authProvider
  /\ Len(channels) = 2
  /\ channels[2].parent = 1
  /\ channels[1].promise = "resolved"
  /\ channels[2].promise = "resolved"
  /\ endpoint = [origin |-> OriginA, path |-> <<"messages">>]
  /\ onerrorCalls = 0

\* C7: a send(m) that got one 401, was authorized and then got a 200 has
\* issued exactly two POSTs, both with the serialized m as body, is resolved
\* and has made no error callback.
C7_ResendAfterAuth ==
  /\ [](\A s \in 1..Len(sends) :
          (sends[s].phase = "resolved" /\ sends[s].auths = 1)
            => /\ Len(sends[s].posts) = 2
               /\ \A k \in 1..2 : sends[s].posts[k].body = Stringify(sends[s].msg)
               /\ sends[s].reports = 0)
  /\ [][ \A s \in 1..Len(sends) :
           (sends'[s].phase \in {"auth", "resolved"} /\ sends'[s] # sends[s])
             => onerrorCalls' = onerrorCalls ]_vars

\* such a send(), on a transport that made no error callback at all
C7_Witness ==
  /\ onerrorCalls = 0
  /\ \E s \in 1..Len(sends) :
       /\ sends[s].phase = "resolved"
       /\ sends[s].auths = 1
       /\ Len(sends[s].posts) = 2

\* C8: the close callback is invoked at most once per transport; a close()
\* on a transport already closed changes nothing.
C8_CloseOnce == oncloseCalls <= 1

\* C9: when close() returns, no POST issued by an earlier send() is in
\* flight with a signal that has not been aborted.
C9_CloseCancelsPosts ==
  [][ oncloseCalls' = oncloseCalls + 1
        => \A s \in 1..Len(sends') :
             sends'[s].phase = "fetch"
               => controllers'[Last(sends'[s].posts).signal] ]_vars

\* C10: every start() or send() call that failed has been reported through
\* the error callback exactly once.
C10_FailuresReportedOnce ==
  /\ \A k \in 1..Len(starts) :
       (IF starts[k].result = "AlreadyStarted" THEN TRUE
        ELSE channels[1].promise = "rejected")
         => starts[k].reports = 1
  /\ \A s \in 1..Len(sends) :
       sends[s].phase = "rejected" => sends[s].reports = 1

\* a channel error that is not an authentication challenge the transport
\* can answer
Unrecoverable(code) == ~IsAuthChallenge(code)

\* C11: an unrecoverable error event on a streaming channel while start() is
\* pending rejects start(), invokes the error callback once, closes the
\* streaming channel and invokes the close callback once.
C11_ChannelErrorCloses ==
  [][ \A c \in Channels, code \in {401, 500} :
        (ErrorEvent(c, code) /\ Unrecoverable(code) /\ StartPending)
          => /\ channels'[1].promise = "rejected"
             /\ onerrorCalls' = onerrorCalls + 1
             /\ ~IsOpen(c)'
             /\ oncloseCalls' = oncloseCalls + 1 ]_vars

\* the failures of send() that C12 names
SendOnlyErrors == {"NotConnected", "Unauthorized", "HttpDeliveryError"}

\* send() s fails in this step
FailsNow(s) ==
  /\ sends'[s].phase = "rejected"
  /\ s \in 1..Len(sends) => sends[s].phase # "rejected"

\* C12: a step in which a send() fails with NotConnected, Unauthorized or
\* HttpDeliveryError invokes no close callback, closes no streaming channel,
\* aborts no controller and leaves the recorded endpoint unchanged; a send()
\* called after such a failure, with an endpoint recorded, is not refused.
C12_FailedSendLeavesTransport ==
  [][ /\ \A s \in 1..Len(sends') :
           (FailsNow(s) /\ sends'[s].error \in SendOnlyErrors)
             => UNCHANGED <<eventSource, endpoint, abortController, channels,
                            controllers, oncloseCalls>>
      /\ (/\ Len(sends') = Len(sends) + 1
          /\ endpoint # Undefined
          /\ \E s \in 1..Len(sends) :
               /\ sends[s].phase = "rejected"
               /\ sends[s].error \in SendOnlyErrors)
           => Last(sends').phase = "headers" ]_vars

\* a send() failed on a 500 and another send() on the same transport was
\* delivered, with the channel open and no close callback made
C12_Witness ==
  /\ Len(sends) = 2
  /\ sends[1].error = "HttpDeliveryError"
  /\ sends[2].phase = "resolved"
  /\ Last(sends[2].posts).url = endpoint
  /\ IsOpen(eventSource)
  /\ ~Aborted(abortController)
  /\ oncloseCalls = 0

\* the channels opened by a reconnect after an authorization
Reconnects == {c \in 1..Len(channels) : channels[c].parent # 0}

\* C13: a start() call leads to at most one reconnect after an
\* authorization, and a send() call to at most two POSTs and one call of the
\* auth collaborator.
C13_OneReattempt ==
  /\ Cardinality(Reconnects) <= 1
  /\ \A s \in 1..Len(sends) :
       /\ Len(sends[s].posts) <= 2
       /\ sends[s].auths <= 1

\* C14: the recorded endpoint, if any, has the origin of the target address,
\* and so has the address of every POST issued.
C14_EndpointSameOrigin ==
  /\ endpoint # Undefined => endpoint.origin = url.origin
  /\ \A s \in 1..Len(sends) :
       \A k \in 1..Len(sends[s].posts) :
         sends[s].posts[k].url.origin = url.origin

\* channel c is the newest channel and an endpoint event of its own has
\* already been recorded (its promise has no other way to resolve)
EndpointRecordedOn(c) ==
  /\ c = Len(channels)
  /\ channels[c].promise = "resolved"

\* C15: an endpoint event on a streaming channel that has already recorded
\* an endpoint does not change the recorded endpoint.
C15_EndpointWrittenOnce ==
  [][ \A c \in Channels, d \in EndpointData :
        (EndpointEvent(c, d) /\ EndpointRecordedOn(c))
          => endpoint' = endpoint ]_vars

\* the current channel was opened by a reconnect and has not delivered its
\* endpoint event
AwaitingEndpointOfReconnect ==
  /\ eventSource # 0
  /\ channels[eventSource].parent # 0
  /\ channels[eventSource].promise = "pending"

\* channel c has been replaced by the channel of a reconnect
Superseded(c) == c \in 1..Len(channels) /\ c # eventSource

\* C16: a send() called after a reconnect opened a new channel and before
\* that channel's endpoint event fails with NotConnected and POSTs nothing;
\* an event of a superseded channel changes no recorded endpoint and invokes
\* no callback.
C16_NoSupersededGeneration ==
  [][ /\ (Len(sends') = Len(sends) + 1 /\ AwaitingEndpointOfReconnect)
           => /\ Last(sends').phase = "rejected"
              /\ Last(sends').error = "NotConnected"
      /\ \A c \in Channels :
           (/\ Superseded(c)
            /\ \/ \E d \in EndpointData : EndpointEvent(c, d)
               \/ \E d \in InboundData : MessageEvent(c, d)
               \/ \E code \in {401, 500} : ErrorEvent(c, code))
             => UNCHANGED <<endpoint, onerrorCalls, oncloseCalls,
                            onmessageLog>> ]_vars

\* the results of auth() that are not an authorization
Denials == AuthOutcomes \ {"AUTHORIZED"}

\* the failure an operation ends with after such a result
AuthFailure(r) == IF r = "REDIRECT" THEN "Unauthorized" ELSE "AuthError"

\* C17: when auth() returns something other than AUTHORIZED, or throws, on
\* the streaming path no channel is constructed and a pending start() is
\* rejected with Unauthorized or with the failure of auth(); on the send
\* path the send() is rejected likewise and issues no POST, then or later.
C17_DeniedAuthAborts ==
  [][ /\ \A i \in Channels, r \in Denials :
           StreamAuthResult(i, r)
             => /\ Len(channels') = Len(channels)
                /\ eventSource' = eventSource
                /\ StartPending
                     => /\ channels'[1].promise = "rejected"
                        /\ channels'[1].error = AuthFailure(r)
      /\ \A s \in 1..Len(sends), r \in Denials :
           (sends[s].phase = "auth" /\ SendAuthResult(s, r))
             => /\ sends'[s].phase = "rejected"
                /\ sends'[s].error = AuthFailure(r)
                /\ sends'[s].posts = sends[s].posts
      /\ \A s \in 1..Len(sends) :
           sends[s].phase = "rejected" => sends'[s] = sends[s] ]_vars

\* start() was rejected with Unauthorized without a second channel, and a
\* send() with the failure of auth() after its one POST
C17_Witness ==
  /\ Len(channels) = 1
  /\ starts # <<>>
  /\ starts[1].result = "chained"
  /\ channels[1].promise = "rejected"
  /\ channels[1].error = "Unauthorized"
  /\ \E s \in 1..Len(sends) :
       /\ sends[s].phase = "rejected"
       /\ sends[s].error = "AuthError"
       /\ Len(sends[s].posts) = 1
       /\ sends[s].auths = 1

\* C18: close() leaves no endpoint recorded, and a send() called after a
\* close() is rejected with NotConnected.
C18_CloseDiscardsEndpoint ==
  [][ /\ Close => endpoint' = Undefined
      /\ (Len(sends') = Len(sends) + 1 /\ oncloseCalls > 0)
           => /\ Last(sends').phase = "rejected"
              /\ Last(sends').error = "NotConnected" ]_vars

\* close() has been called since the current channel was constructed
ClosedAfterStart ==
  /\ eventSource # 0
  /\ channels[eventSource].readyState = "closed"

\* C19: once close() has been called on a started transport, no streaming
\* channel is constructed and no message is delivered to the message
\* callback.
C19_NothingAfterClose ==
  [][ ClosedAfterStart
        => /\ Len(channels') = Len(channels)
           /\ onmessageLog' = onmessageLog ]_vars

\* C20: a start() call that opened a streaming channel eventually settles,
\* in every execution in which auth() settles and open channels deliver
\* their endpoint events.
C20_StartSettles == StartPending ~> ~StartPending

====
